---- MODULE Spec2Model ----
(***************************************************************************)
(* UnBind: contract analysis pipeline (chunking, per-chunk clause          *)
(* extraction, synthesis) and the embedding retrieval of the impact        *)
(* simulator.                                                              *)
(*                                                                         *)
(* Specifications:                                                         *)
(*   SpecChunk      - chunkText applied to bounded texts, sizes, overlaps  *)
(*   SpecChunkLoop  - chunkText one loop iteration at a time               *)
(*   Spec           - one run of analyzeContract with its concurrent       *)
(*                    analyzeChunk calls, for the two service modules      *)
(*   SpecRetrieve   - vectorRetrieveRelevantChunks for every outcome of    *)
(*                    the embedding call                                   *)
(*   SpecCosine     - cosineSimilarity on bounded vectors                  *)
(*   SpecExtract    - analyzeChunk for every outcome of its model call     *)
(*   SpecSimulate   - one run of simulateImpact                            *)
(*   SpecDocView    - the parts computed by DocumentView                   *)
(*   SpecApp        - the App component and its analysis attempts          *)
(*   SpecAuth       - the user list and session of authService             *)
(*   SpecNegotiate  - the clause resolutions of NegotiateView              *)
(*   SpecImpactView - the form of ImpactSimulatorView                      *)
(***************************************************************************)
EXTENDS Integers, Sequences, FiniteSets, TLC

VARIABLES
    \* ---- chunkText call (SpecChunk)
    text, chunkSize, overlap, chunkPc, chunkResult, loopI,
    \* ---- analyzeContract run (Spec)
    service, documentLength, pc, calls, settleOrder, joined,
    allClauses, synthCall, result, error, progress,
    extractorCalls, synthesizerCalls,
    \* ---- vectorRetrieveRelevantChunks call (SpecRetrieve)
    rChunks, topK, rPc, vectors, rResult,
    \* ---- cosineSimilarity call (SpecCosine)
    vecA, vecB, cosPc, cosResult,
    \* ---- analyzeChunk call (SpecExtract)
    exService, exOutcome, exPc, exResult,
    \* ---- simulateImpact run (SpecSimulate)
    simService, simDocLength, scenario, simPc, simChunks, relevantChunks,
    retrievalCalls, answererCalls, answerCall, simResult, simError,
    \* ---- DocumentView.parts (SpecDocView)
    dvText, dvClauses, dvPc, dvParts,
    \* ---- App component and the analyses store of authService (SpecApp)
    currentUser, view, userAnalyses, currentAnalysis, isLoading, loadingMessage, appError, session, storedAnalyses, inFlight, mounted,
    \* ---- authService user list and session (SpecAuth)
    users, authSession, authCall,
    \* ---- NegotiateView resolutions (SpecNegotiate)
    resolutions, userInputs, negPc,
    \* ---- ImpactSimulatorView (SpecImpactView)
    ivScenario, ivResult, ivIsLoading, ivInFlight, ivStarted, ivError

chunkVars == <<text, chunkSize, overlap, chunkPc, chunkResult, loopI>>
analyzeVars == <<service, documentLength, pc, calls, settleOrder, joined,
                 allClauses, synthCall, result, error, progress,
                 extractorCalls, synthesizerCalls>>
retrieveVars == <<rChunks, topK, rPc, vectors, rResult>>
cosineVars == <<vecA, vecB, cosPc, cosResult>>
extractVars == <<exService, exOutcome, exPc, exResult>>
simulateVars == <<simService, simDocLength, scenario, simPc, simChunks, relevantChunks,
                  retrievalCalls, answererCalls, answerCall, simResult, simError>>
docViewVars == <<dvText, dvClauses, dvPc, dvParts>>
appVars == <<currentUser, view, userAnalyses, currentAnalysis, isLoading, loadingMessage, appError, session, storedAnalyses, inFlight, mounted>>
authVars == <<users, authSession, authCall>>
negotiateVars == <<resolutions, userInputs, negPc>>
impactViewVars == <<ivScenario, ivResult, ivIsLoading, ivInFlight, ivStarted, ivError>>
vars == <<chunkVars, analyzeVars, retrieveVars, cosineVars, extractVars, simulateVars, docViewVars, appVars, authVars, negotiateVars, impactViewVars>>

\* the variables of the other specifications
outsideChunk == <<analyzeVars, retrieveVars, cosineVars, extractVars, simulateVars, docViewVars, appVars, authVars, negotiateVars, impactViewVars>>
outsideAnalyze == <<chunkVars, retrieveVars, cosineVars, extractVars, simulateVars, docViewVars, appVars, authVars, negotiateVars, impactViewVars>>
outsideRetrieve == <<chunkVars, analyzeVars, cosineVars, extractVars, simulateVars, docViewVars, appVars, authVars, negotiateVars, impactViewVars>>
outsideCosine == <<chunkVars, analyzeVars, retrieveVars, extractVars, simulateVars, docViewVars, appVars, authVars, negotiateVars, impactViewVars>>
outsideExtract == <<chunkVars, analyzeVars, retrieveVars, cosineVars, simulateVars, docViewVars, appVars, authVars, negotiateVars, impactViewVars>>
outsideSimulate == <<chunkVars, analyzeVars, retrieveVars, cosineVars, extractVars, docViewVars, appVars, authVars, negotiateVars, impactViewVars>>
outsideDocView == <<chunkVars, analyzeVars, retrieveVars, cosineVars, extractVars, simulateVars, appVars, authVars, negotiateVars, impactViewVars>>
outsideApp == <<chunkVars, analyzeVars, retrieveVars, cosineVars, extractVars, simulateVars, docViewVars, authVars, negotiateVars, impactViewVars>>
outsideAuth == <<chunkVars, analyzeVars, retrieveVars, cosineVars, extractVars, simulateVars, docViewVars, appVars, negotiateVars, impactViewVars>>
outsideNegotiate == <<chunkVars, analyzeVars, retrieveVars, cosineVars, extractVars, simulateVars, docViewVars, appVars, authVars, impactViewVars>>
outsideImpactView == <<chunkVars, analyzeVars, retrieveVars, cosineVars, extractVars, simulateVars, docViewVars, appVars, authVars, negotiateVars>>

(***************************************************************************)
(* Bounds                                                                  *)
(***************************************************************************)
MaxLen == 6        \* longest text given to chunkText in SpecChunk
MaxSize == 4       \* largest chunkSize in SpecChunk
MaxOverlap == 4    \* largest overlap in SpecChunk
MaxClauses == 2    \* most clauses in one Extractor response
MaxChunks == 3     \* most chunks handed to the retriever
MaxTopK == 3       \* largest topK handed to the retriever

Chars == {97, 98}      \* UTF-16 code units of the bounded texts

Min(x, y) == IF x <= y THEN x ELSE y
Max(x, y) == IF x >= y THEN x ELSE y

RECURSIVE SeqsUpTo(_, _)
SeqsUpTo(S, n) ==
    IF n = 0 THEN {<<>>}
    ELSE LET shorter == SeqsUpTo(S, n - 1)
         IN  shorter \cup {Append(s, x) : s \in {q \in shorter : Len(q) = n - 1}, x \in S}

(***************************************************************************)
(* String.prototype.substring(start, end): both indices are clamped to     *)
(* [0, length] and swapped when start > end; characters start..end-1.      *)
(***************************************************************************)
Clamp(t, k) == Max(0, Min(k, Len(t)))

substring(t, start, end) ==
    LET lo == Min(Clamp(t, start), Clamp(t, end))
        hi == Max(Clamp(t, start), Clamp(t, end))
    IN  SubSeq(t, lo + 1, hi)

(***************************************************************************)
(* chunkText: the for loop of lines 175-177, one recursion per iteration.  *)
(***************************************************************************)
RECURSIVE chunkLoop_noOverlap(_, _, _, _, _)
chunkLoop_noOverlap(t, sz, ov, i, acc) ==
    IF i < Len(t)
    THEN chunkLoop_noOverlap(t, sz, ov, i + sz, Append(acc, substring(t, i, i + sz)))
    ELSE acc

RECURSIVE chunkLoop_dropTail(_, _, _, _, _)
chunkLoop_dropTail(t, sz, ov, i, acc) ==
    IF i + sz <= Len(t)
    THEN chunkLoop_dropTail(t, sz, ov, i + (sz - ov), Append(acc, substring(t, i, i + sz)))
    ELSE acc

RECURSIVE chunkLoop(_, _, _, _, _)
chunkLoop(t, sz, ov, i, acc) ==
    IF i < Len(t)
    THEN chunkLoop(t, sz, ov, i + (sz - ov), Append(acc, substring(t, i, i + sz)))
    ELSE acc

chunkText_emptyGivesNone(t, sz, ov) ==
    IF Len(t) = 0 THEN <<>>
    ELSE IF Len(t) <= sz THEN <<t>> ELSE chunkLoop(t, sz, ov, 0, <<>>)

chunkText(t, sz, ov) ==
    IF Len(t) <= sz THEN <<t>> ELSE chunkLoop(t, sz, ov, 0, <<>>)

\* (variant: the step is kept positive)
advance_floor(i, sz, ov) == i + Max(1, sz - ov)

\* the loop's update, `i += chunkSize - overlap`
advance(i, sz, ov) == i + (sz - ov)

\* The loop advances only when overlap < chunkSize; otherwise i never reaches
\* text.length and the call does not return.
chunkTextReturns(t, sz, ov) == Len(t) <= sz \/ ov < sz

(***************************************************************************)
(* Documents of the analysis runs and the chunking defaults                *)
(***************************************************************************)
DefaultChunkSize == 4000
DefaultOverlap == 400

\* A document of n characters, all different, so that a substring determines
\* its offset.
Doc(n) == [k \in 1..n |-> 1000 + k]

(***************************************************************************)
(* JSON values and model responses.  A response text is a body, possibly   *)
(* wrapped in a Markdown code fence; the body is either not JSON at all    *)
(* ("garbage") or a JSON value of some kind.  Of an object only its key    *)
(* set and the value of its clauses key matter to the callers.             *)
(***************************************************************************)
Clauses == {"c1", "c2"}                      \* clauseText of the clauses a model may report
ClauseLists == SeqsUpTo(Clauses, MaxClauses)

JsonVal(kind, keys, cl) == [kind |-> kind, keys |-> keys, clauses |-> cl]
JsNull == JsonVal("null", {}, <<>>)            \* null, also what a failed parse gives
Garbage == JsonVal("garbage", {}, <<>>)        \* a body that is not JSON

ResponseText(fenced, body) == [fenced |-> fenced, body |-> body]

\* what awaiting a model call can produce: an exception or a response text
Threw == [threw |-> TRUE, text |-> ResponseText(FALSE, Garbage)]
Returned(txt) == [threw |-> FALSE, text |-> txt]

ExtractorBodies ==
    {Garbage, JsNull, JsonVal("number", {}, <<>>), JsonVal("array", {"0"}, <<>>),
     JsonVal("string", {}, <<>>), JsonVal("boolean", {}, <<>>),
     JsonVal("object", {}, <<>>)}
    \cup {JsonVal("object", {"clauses"}, cl) : cl \in ClauseLists}

ReportKeys == {"summary", "keyTerms", "keyDates", "missingClauses"}

SynthesizerBodies ==
    {Garbage, JsNull, JsonVal("number", {}, <<>>), JsonVal("array", {"0"}, <<>>),
     JsonVal("object", ReportKeys, <<>>),
     JsonVal("object", {"summary"}, <<>>),
     JsonVal("object", ReportKeys \cup {"clauses"}, <<"c2">>)}

ExtractorOutcomes ==
    {Threw} \cup {Returned(ResponseText(f, b)) : f \in BOOLEAN, b \in ExtractorBodies}
SynthesizerOutcomes ==
    {Threw} \cup {Returned(ResponseText(f, b)) : f \in BOOLEAN, b \in SynthesizerBodies}

\* tryParseJson: trims, strips a leading ```/```json and a trailing ```, then
\* JSON.parse; any exception gives null.
tryParseJson(txt) == IF txt.body.kind = "garbage" THEN JsNull ELSE txt.body

\* JSON.parse applied to the raw response text (geminiService): a fenced text
\* or a non-JSON body raises SyntaxError.
jsonParseThrows(txt) == txt.fenced \/ txt.body.kind = "garbage"

\* `parsed?.clauses || []` and `result.clauses || []`
clausesOrEmpty(parsed) ==
    IF parsed.kind = "object" /\ "clauses" \in parsed.keys THEN parsed.clauses ELSE <<>>

(***************************************************************************)
(* Errors                                                                  *)
(***************************************************************************)
TransportError == "chatComplete failed"
NoClausesError == "No legal clauses were identified in the document. It might be too short or in an unsupported format."
SynthesisParseError == "Failed to parse synthesis JSON"
GeminiSynthesisError == "Failed to synthesize the final report from the analyzed clauses."

(***************************************************************************)
(* Promises of the analyzeChunk calls                                      *)
(***************************************************************************)
Pending == [state |-> "pending", value |-> <<>>, reason |-> "none", modelCall |-> "pending"]
Fulfilled(v, mc) == [state |-> "fulfilled", value |-> v, reason |-> "none", modelCall |-> mc]
Rejected(e, mc) == [state |-> "rejected", value |-> <<>>, reason |-> e, modelCall |-> mc]

\* (variant: a response that does not parse rejects the promise)
analyzeChunk_strict(outcome) ==
    IF outcome.threw
    THEN Rejected(TransportError, "threw")
    ELSE IF tryParseJson(outcome.text).kind = "null"
         THEN Rejected("SyntaxError", "returned")
         ELSE Fulfilled(clausesOrEmpty(tryParseJson(outcome.text)), "returned")

\* analyzeChunk of the analysisService, resumed with the outcome of chatComplete:
\* no try/catch, an exception of chatComplete rejects the returned promise.
analyzeChunk(outcome) ==
    IF outcome.threw
    THEN Rejected(TransportError, "threw")
    ELSE Fulfilled(clausesOrEmpty(tryParseJson(outcome.text)), "returned")

\* analyzeChunk of the geminiService: every exception inside the try gives [].
geminiAnalyzeChunk(outcome) ==
    IF outcome.threw THEN Fulfilled(<<>>, "threw")
    ELSE IF jsonParseThrows(outcome.text) \/ outcome.text.body.kind = "null"
         THEN Fulfilled(<<>>, "returned")
         ELSE Fulfilled(clausesOrEmpty(outcome.text.body), "returned")

\* Promise.all: rejects with the first rejection, fulfils once all inputs are
\* fulfilled, with the values by input position.
promiseAllState(cs, was) ==
    IF was # "pending" THEN was
    ELSE IF \E i \in DOMAIN cs : cs[i].state = "rejected" THEN "rejected"
    ELSE IF \A i \in DOMAIN cs : cs[i].state = "fulfilled" THEN "fulfilled"
    ELSE "pending"

promiseAllValues_byArrival(cs, order) == [k \in 1..Len(order) |-> cs[order[k]].value]

promiseAllValues(cs, order) == [i \in 1..Len(cs) |-> cs[i].value]

RECURSIVE flat(_)
flat(xss) == IF xss = <<>> THEN <<>> ELSE Head(xss) \o flat(Tail(xss))

noClausesFound_never(cl) == FALSE

noClausesFound(cl) == Len(cl) = 0

\* { ...finalReport, clauses: allClauses }
NoResult == [fields |-> {}, clauses |-> <<>>]
\* (variant: the spread comes last, { clauses: allClauses, ...finalReport })
mergeReport_reportWins(finalReport, cl) ==
    [fields |-> (IF finalReport.kind \in {"object", "array"} THEN finalReport.keys ELSE {})
                    \cup {"clauses"},
     clauses |-> IF finalReport.kind = "object" /\ "clauses" \in finalReport.keys
                 THEN finalReport.clauses ELSE cl]

mergeReport(finalReport, cl) ==
    [fields |-> (IF finalReport.kind \in {"object", "array"} THEN finalReport.keys ELSE {})
                    \cup {"clauses"},
     clauses |-> cl]

\* synthesizeReport resumed with the outcome of its model call:
\* [threw, error, value]
synthesizeReport_fallback(outcome) ==
    IF outcome.threw
    THEN [threw |-> TRUE, error |-> TransportError, value |-> JsNull]
    ELSE [threw |-> FALSE, error |-> "none", value |-> tryParseJson(outcome.text)]

synthesizeReport(outcome) ==
    IF outcome.threw
    THEN [threw |-> TRUE, error |-> TransportError, value |-> JsNull]
    ELSE IF tryParseJson(outcome.text) = JsNull
         THEN [threw |-> TRUE, error |-> SynthesisParseError, value |-> JsNull]
         ELSE [threw |-> FALSE, error |-> "none", value |-> tryParseJson(outcome.text)]

geminiSynthesizeReport(outcome) ==
    IF outcome.threw \/ jsonParseThrows(outcome.text)
    THEN [threw |-> TRUE, error |-> GeminiSynthesisError, value |-> JsNull]
    ELSE [threw |-> FALSE, error |-> "none", value |-> outcome.text.body]

Progress(m, n) == [msg |-> m, n |-> n]

(***************************************************************************)
(* Vector retrieval                                                        *)
(***************************************************************************)
\* embedding vectors of the bounded model (two integer components)
VectorSet == {<<0, 0>>, <<1, 0>>, <<0, 1>>, <<1, 1>>, <<-1, 0>>}

\* what awaiting embedTexts can produce: an exception or a list of vectors
EmbedThrew == [threw |-> TRUE, vectors |-> <<>>]
EmbedReturned(vs) == [threw |-> FALSE, vectors |-> vs]

\* the accumulating loop of cosineSimilarity over the first n components
RECURSIVE sumProducts(_, _, _)
sumProducts(a, b, n) == IF n = 0 THEN 0 ELSE sumProducts(a, b, n - 1) + a[n] * b[n]

\* IEEE-754 double arithmetic of `dot / (Math.sqrt(na) * Math.sqrt(nb))` for
\* parallel vectors, where dot*dot = na*nb and the exact quotient is 1 or -1:
\* the sign of |computed quotient| - 1.  Math.sqrt(3) * Math.sqrt(3) is
\* 2.9999999999999996 and 3 / 2.9999999999999996 is 1.0000000000000002;
\* Math.sqrt(2) * Math.sqrt(2) is 2.0000000000000004 and the quotient is
\* 0.9999999999999998.  Squared norms 1..12.
ParallelQuotientRounding(na, nb) ==
    LET lo == Min(na, nb)
        hi == Max(na, nb)
    IN  CASE <<lo, hi>> \in {<<3, 3>>, <<3, 12>>, <<6, 6>>, <<12, 12>>} -> 1
          [] <<lo, hi>> \in {<<2, 2>>, <<2, 8>>, <<5, 5>>, <<7, 7>>, <<8, 8>>, <<10, 10>>} -> -1
          [] <<lo, hi>> \in {<<1, 1>>, <<1, 4>>, <<1, 9>>, <<4, 4>>, <<4, 9>>, <<9, 9>>,
                             <<11, 11>>} -> 0

\* the computed number dot / denom: NaN or infinite when denom is 0; otherwise
\* its exact value is dot / sqrt(denomSq) and `excess` is the sign of
\* |computed| - 1 where rounding decides it (parallel vectors), else 0
Score(dot, denomSq, excess) == [dot |-> dot, denomSq |-> denomSq, excess |-> excess]
NoScore == Score(0, 1, 0)

\* (variant: the denominator is not replaced when it is zero)
cosineSimilarity_noFloor(a, b) ==
    LET dot == sumProducts(a, b, Len(a))
        na == sumProducts(a, a, Len(a))
        nb == sumProducts(b, b, Len(a))
    IN  Score(dot, na * nb, 0)

\* (variant: the norms leave out the last component)
cosineSimilarity_shortNorm(a, b) ==
    LET dot == sumProducts(a, b, Len(a))
        na == sumProducts(a, a, Len(a) - 1)
        nb == sumProducts(b, b, Len(a) - 1)
    IN  Score(dot, IF na * nb = 0 THEN 1 ELSE na * nb, 0)

\* cosineSimilarity(a, b) = dot / (Math.sqrt(na) * Math.sqrt(nb) || 1)
cosineSimilarity(a, b) ==
    LET dot == sumProducts(a, b, Len(a))
        na == sumProducts(a, a, Len(a))
        nb == sumProducts(b, b, Len(a))
    IN  IF na * nb = 0
        THEN Score(dot, 1, 0)
        ELSE Score(dot, na * nb,
                   IF dot * dot = na * nb THEN ParallelQuotientRounding(na, nb) ELSE 0)

SignedSquare(d) == IF d >= 0 THEN d * d ELSE -(d * d)

\* x.score > y.score for scores dot / sqrt(denomSq)
ScoreGreater(x, y) == SignedSquare(x.dot) * y.denomSq > SignedSquare(y.dot) * x.denomSq

\* Array.prototype.sort((a, b) => b.score - a.score): descending, stable
RECURSIVE insertByScore(_, _)
insertByScore(sorted, e) ==
    IF sorted = <<>> THEN <<e>>
    ELSE IF ScoreGreater(e.score, Head(sorted).score)
         THEN <<e>> \o sorted
         ELSE <<Head(sorted)>> \o insertByScore(Tail(sorted), e)

\* (variant: the scored list is left in chunk order)
sortByScore_unsorted(xs) == xs

RECURSIVE sortByScore(_)
sortByScore(xs) ==
    IF xs = <<>> THEN <<>>
    ELSE insertByScore(sortByScore(SubSeq(xs, 1, Len(xs) - 1)), xs[Len(xs)])

NoRetrieval == [threw |-> FALSE, value |-> <<>>]

\* (variant: no try/catch and no vector count check)
vectorRetrieveRelevantChunks_unguarded(chs, k, embedded) ==
    IF embedded.threw THEN [threw |-> TRUE, value |-> <<>>]
    ELSE LET vs == embedded.vectors
             n == Min(Len(chs), IF Len(vs) = 0 THEN 0 ELSE Len(vs) - 1)
         IN  [threw |-> FALSE, value |-> SubSeq(chs, 1, Min(k, n))]

\* (variant: an empty selection is returned as it is)
vectorRetrieveRelevantChunks_noEmptyFallback(chs, k, embedded) ==
    IF embedded.threw THEN [threw |-> FALSE, value |-> chs]
    ELSE IF Len(embedded.vectors) # Len(chs) + 1 THEN [threw |-> FALSE, value |-> chs]
    ELSE LET vs == embedded.vectors
             scored == sortByScore([idx \in 1..(Len(vs) - 1) |->
                           [idx |-> idx, score |-> cosineSimilarity(vs[idx], vs[Len(vs)])]])
             picked == SubSeq(scored, 1, Min(k, Len(scored)))
         IN  [threw |-> FALSE, value |-> [j \in 1..Len(picked) |-> chs[picked[j].idx]]]

\* vectorRetrieveRelevantChunks(chunks, query, topK), given what embedTexts
\* produced for [...chunks, query]
vectorRetrieveRelevantChunks(chs, k, embedded) ==
    IF embedded.threw THEN [threw |-> FALSE, value |-> chs]
    ELSE IF Len(embedded.vectors) # Len(chs) + 1 THEN [threw |-> FALSE, value |-> chs]
    ELSE LET vs == embedded.vectors
             queryVec == vs[Len(vs)]
             chunkVecs == SubSeq(vs, 1, Len(vs) - 1)
             scored == sortByScore([idx \in 1..Len(chunkVecs) |->
                           [idx |-> idx, score |-> cosineSimilarity(chunkVecs[idx], queryVec)]])
             picked == SubSeq(scored, 1, Min(k, Len(scored)))
             selected == [j \in 1..Len(picked) |-> chs[picked[j].idx]]
         IN  [threw |-> FALSE, value |-> IF Len(selected) > 0 THEN selected ELSE chs]

\* the Synthesizer's model call: not issued, in flight, or settled with an outcome
NoSynthCall == [state |-> "none", outcome |-> Threw]
PendingSynthCall == [state |-> "pending", outcome |-> Threw]
SettledSynthCall(outcome) == [state |-> "settled", outcome |-> outcome]

IdleAnalyze ==
    /\ service = "none" /\ documentLength = 0 /\ pc = "off"
    /\ calls = <<>> /\ settleOrder = <<>> /\ joined = "pending"
    /\ allClauses = <<>> /\ synthCall = NoSynthCall /\ result = NoResult
    /\ error = "none" /\ progress = <<>>
    /\ extractorCalls = 0 /\ synthesizerCalls = 0

IdleRetrieve ==
    /\ rChunks = <<>> /\ topK = 0 /\ rPc = "off" /\ vectors = EmbedThrew
    /\ rResult = NoRetrieval

IdleChunk ==
    /\ text = <<>> /\ chunkSize = 0 /\ overlap = 0 /\ chunkPc = "off"
    /\ chunkResult = <<>> /\ loopI = 0

(***************************************************************************)
(* simulateImpact                                                          *)
(***************************************************************************)
Space == 32
Letter == 113

\* (variant: the guard tests the scenario itself, `!scenario`)
trim_none(s) == s

\* String.prototype.trim: the text between the first and the last character
\* that is not whitespace
trim(s) ==
    LET inked == {i \in DOMAIN s : s[i] # Space}
    IN  IF inked = {} THEN <<>>
        ELSE SubSeq(s, CHOOSE i \in inked : \A j \in inked : i <= j,
                       CHOOSE i \in inked : \A j \in inked : i >= j)

RetrievalChunkSize == 1500
RetrievalOverlap == 200
RetrievalTopK == 6

EnterScenarioMessage == "Please enter a scenario to simulate."
NotFoundMessage == "Could not find any information in the document relevant to your scenario. Please try rephrasing your question or check if the topic is covered in the contract."
SimulationRetryError == "Failed to simulate the impact. The AI model may be overloaded. Please try again later."
NoAnswer == "none"

\* what awaiting the retrieval model call of the geminiService can produce: an
\* exception, a text that JSON.parse rejects, or an object whose
\* relevant_indices (0-based, absent = <<>>) are any indices, in range or not
IndicesThrew == [threw |-> TRUE, parseable |-> FALSE, indices |-> <<>>]
IndicesReturned(parseable, idx) == [threw |-> FALSE, parseable |-> parseable, indices |-> idx]
IndicesOutcomes(n) ==
    {IndicesThrew, IndicesReturned(FALSE, <<>>)}
    \cup {IndicesReturned(TRUE, idx) : idx \in SeqsUpTo(0..n, 2)}

\* indices.map(i => chunks[i]).filter(Boolean): an index out of range gives
\* undefined and an empty chunk is falsy, both are dropped
RECURSIVE mapFilterBoolean(_, _)
mapFilterBoolean(chs, idx) ==
    IF idx = <<>> THEN <<>>
    ELSE LET i == Head(idx)
             rest == mapFilterBoolean(chs, Tail(idx))
         IN  IF i >= 0 /\ i < Len(chs) /\ chs[i + 1] # <<>>
             THEN <<chs[i + 1]>> \o rest
             ELSE rest

\* findRelevantChunks of the geminiService: any exception gives all chunks
findRelevantChunks(chs, outcome) ==
    IF outcome.threw \/ ~outcome.parseable THEN chs
    ELSE mapFilterBoolean(chs, outcome.indices)

\* what awaiting the Answerer's model call can produce
AnswerThrew == [threw |-> TRUE, text |-> NoAnswer]
AnswerReturned(t) == [threw |-> FALSE, text |-> t]
AnswererOutcomes == {AnswerThrew, AnswerReturned("answer"), AnswerReturned("")}

IdleSimulate ==
    /\ simService = "none" /\ simDocLength = 0 /\ scenario = <<>> /\ simPc = "off"
    /\ simChunks = <<>> /\ relevantChunks = <<>>
    /\ retrievalCalls = 0 /\ answererCalls = 0 /\ answerCall = "none"
    /\ simResult = NoAnswer /\ simError = "none"

IdleCosine ==
    /\ vecA = <<>> /\ vecB = <<>> /\ cosPc = "off" /\ cosResult = NoScore

IdleExtract ==
    /\ exService = "none" /\ exOutcome = Threw /\ exPc = "off" /\ exResult = Pending

IdleDocView ==
    /\ dvText = <<>> /\ dvClauses = <<>> /\ dvPc = "off" /\ dvParts = <<>>

IdleApp ==
    /\ currentUser = 0 /\ view = "off" /\ userAnalyses = <<>> /\ currentAnalysis = 0
    /\ isLoading = FALSE /\ loadingMessage = "" /\ appError = "none"
    /\ session = 0 /\ storedAnalyses = <<>>
    /\ inFlight = [stage |-> "none", user |-> 0] /\ mounted = FALSE

IdleAuth ==
    /\ users = <<>> /\ authSession = <<>>
    /\ authCall = [op |-> "off", username |-> <<>>, email |-> <<>>, error |-> "none"]

IdleNegotiate ==
    /\ resolutions = <<>> /\ userInputs = <<>> /\ negPc = "off"

IdleImpactView ==
    /\ ivScenario = <<>> /\ ivResult = "" /\ ivIsLoading = FALSE
    /\ ivInFlight = 0 /\ ivStarted = 0 /\ ivError = "off"

IdleOutsideImpactView == IdleChunk /\ IdleAnalyze /\ IdleRetrieve /\ IdleCosine /\ IdleExtract /\ IdleSimulate /\ IdleDocView /\ IdleApp /\ IdleAuth /\ IdleNegotiate
IdleOutsideNegotiate == IdleChunk /\ IdleAnalyze /\ IdleRetrieve /\ IdleCosine /\ IdleExtract /\ IdleSimulate /\ IdleDocView /\ IdleApp /\ IdleAuth /\ IdleImpactView
IdleOutsideAuth == IdleChunk /\ IdleAnalyze /\ IdleRetrieve /\ IdleCosine /\ IdleExtract /\ IdleSimulate /\ IdleDocView /\ IdleApp /\ IdleNegotiate /\ IdleImpactView
IdleOutsideApp == IdleChunk /\ IdleAnalyze /\ IdleRetrieve /\ IdleCosine /\ IdleExtract /\ IdleSimulate /\ IdleDocView /\ IdleAuth /\ IdleNegotiate /\ IdleImpactView
IdleOutsideDocView == IdleChunk /\ IdleAnalyze /\ IdleRetrieve /\ IdleCosine /\ IdleExtract /\ IdleSimulate /\ IdleApp /\ IdleAuth /\ IdleNegotiate /\ IdleImpactView
IdleOutsideSimulate == IdleChunk /\ IdleAnalyze /\ IdleRetrieve /\ IdleCosine /\ IdleExtract /\ IdleDocView /\ IdleApp /\ IdleAuth /\ IdleNegotiate /\ IdleImpactView
IdleOutsideChunk == IdleAnalyze /\ IdleRetrieve /\ IdleCosine /\ IdleExtract /\ IdleSimulate /\ IdleDocView /\ IdleApp /\ IdleAuth /\ IdleNegotiate /\ IdleImpactView
IdleOutsideAnalyze == IdleChunk /\ IdleRetrieve /\ IdleCosine /\ IdleExtract /\ IdleSimulate /\ IdleDocView /\ IdleApp /\ IdleAuth /\ IdleNegotiate /\ IdleImpactView
IdleOutsideRetrieve == IdleChunk /\ IdleAnalyze /\ IdleCosine /\ IdleExtract /\ IdleSimulate /\ IdleDocView /\ IdleApp /\ IdleAuth /\ IdleNegotiate /\ IdleImpactView
IdleOutsideCosine == IdleChunk /\ IdleAnalyze /\ IdleRetrieve /\ IdleExtract /\ IdleSimulate /\ IdleDocView /\ IdleApp /\ IdleAuth /\ IdleNegotiate /\ IdleImpactView
IdleOutsideExtract == IdleChunk /\ IdleAnalyze /\ IdleRetrieve /\ IdleCosine /\ IdleSimulate /\ IdleDocView /\ IdleApp /\ IdleAuth /\ IdleNegotiate /\ IdleImpactView

(***************************************************************************)
(* SpecChunk: one call of chunkText(text, chunkSize, overlap)              *)
(***************************************************************************)
ChunkInputs ==
    {<<t, s, o>> : t \in SeqsUpTo(Chars, MaxLen), s \in 1..MaxSize, o \in 0..MaxOverlap}
    \cup {<<Doc(3000), DefaultChunkSize, DefaultOverlap>>,
          <<Doc(9000), DefaultChunkSize, DefaultOverlap>>}

InitChunk ==
    /\ \E in \in ChunkInputs :
          /\ text = in[1] /\ chunkSize = in[2] /\ overlap = in[3]
    /\ chunkPc = "call"
    /\ chunkResult = <<>> /\ loopI = 0
    /\ IdleOutsideChunk

CallChunkText ==
    /\ chunkPc = "call"
    /\ chunkTextReturns(text, chunkSize, overlap)
    /\ chunkResult' = chunkText(text, chunkSize, overlap)
    /\ chunkPc' = "returned"
    /\ UNCHANGED <<text, chunkSize, overlap, loopI, outsideChunk>>

NextChunk == CallChunkText

SpecChunk == InitChunk /\ [][NextChunk]_vars

(***************************************************************************)
(* Properties of chunkText (SpecChunk)                                     *)
(***************************************************************************)
ChunkReturned == chunkPc = "returned"

Prefix(c, k) == SubSeq(c, 1, Min(k, Len(c)))

RECURSIVE ConcatPrefixes(_, _, _)
\* first k characters of chunks j, j+1, ..., Len(chs)-1, then the whole last chunk
ConcatPrefixes(chs, k, j) ==
    IF j > Len(chs) THEN <<>>
    ELSE IF j = Len(chs) THEN chs[j]
    ELSE Prefix(chs[j], k) \o ConcatPrefixes(chs, k, j + 1)

\* C5: for overlap < size, the first size-overlap characters of every chunk
\* but the last, followed by the whole last chunk, give back the text exactly.
C5_ChunkCoverage ==
    (ChunkReturned /\ overlap < chunkSize)
        => ConcatPrefixes(chunkResult, chunkSize - overlap, 1) = text

C5_Witness ==
    /\ ChunkReturned /\ overlap < chunkSize /\ overlap > 0
    /\ Len(chunkResult) >= 3
    /\ Len(chunkResult[Len(chunkResult)]) < chunkSize

\* the last k characters of c are the first k characters of d
OverlapBy(c, d, k) ==
    /\ Len(c) >= k /\ Len(d) >= k
    /\ SubSeq(c, Len(c) - k + 1, Len(c)) = SubSeq(d, 1, k)

C7_SingleChunkShortcut ==
    /\ (ChunkReturned /\ Len(text) <= chunkSize) => chunkResult = <<text>>
    /\ (chunkPc = "call" /\ Len(text) <= chunkSize) => ENABLED CallChunkText

C7_Witness ==
    /\ ChunkReturned /\ Len(text) <= chunkSize /\ overlap >= chunkSize
    /\ chunkResult = <<text>>

CeilDiv(a, b) == (a + b - 1) \div b

\* C8: for len > size and overlap < size there is one chunk per window start
\* 0, step, 2*step, ... below len (step = size - overlap), chunk j being
\* text[j*step .. min(j*step + size, len)); 9000 characters with 4000/400 give
\* 3 chunks at offsets 0, 3600 and 7200.
C8_SlidingWindows ==
    /\ (ChunkReturned /\ Len(text) > chunkSize /\ overlap < chunkSize) =>
          LET step == chunkSize - overlap
          IN  /\ Len(chunkResult) = CeilDiv(Len(text), step)
              /\ \A j \in 1..Len(chunkResult) :
                    chunkResult[j] =
                        [k \in 1..(Min((j - 1) * step + chunkSize, Len(text)) - (j - 1) * step)
                            |-> text[(j - 1) * step + k]]
    /\ (ChunkReturned /\ Len(text) = 9000 /\ chunkSize = 4000 /\ overlap = 400) =>
          /\ Len(chunkResult) = 3
          /\ chunkResult[1] = [k \in 1..4000 |-> text[k]]
          /\ chunkResult[2] = [k \in 1..4000 |-> text[3600 + k]]
          /\ chunkResult[3] = [k \in 1..1800 |-> text[7200 + k]]

C8_Witness ==
    /\ ChunkReturned /\ Len(text) = 9000 /\ chunkSize = 4000 /\ overlap = 400
    /\ Len(chunkResult) = 3

(***************************************************************************)
(* Spec: one run of analyzeContract(documentText, role, onProgress)        *)
(***************************************************************************)
Services == {"analysisService", "geminiService"}
DocLengths == {3000, 4001, 9000}

Init ==
    /\ service \in Services
    /\ documentLength \in DocLengths
    /\ pc = "start"
    /\ calls = <<>> /\ settleOrder = <<>> /\ joined = "pending"
    /\ allClauses = <<>> /\ synthCall = NoSynthCall /\ result = NoResult
    /\ error = "none" /\ progress = <<>>
    /\ extractorCalls = 0 /\ synthesizerCalls = 0
    /\ IdleOutsideAnalyze

\* analyzeContract up to `await Promise.all(...)`: chunks.map runs every
\* analyzeChunk up to its own await, so all model calls are issued here.
\* documentText is a text of documentLength characters; documentText and
\* chunks are not read after this step and are not kept in the state.
analyzeContract ==
    /\ pc = "start"
    /\ LET documentText == Doc(documentLength)
           chs == chunkText(documentText, DefaultChunkSize, DefaultOverlap)
       IN  /\ progress' = <<Progress("Chunking document...", 0),
                            Progress("Analyzing N document section(s)...", Len(chs))>>
           /\ calls' = [i \in 1..Len(chs) |-> Pending]
           /\ extractorCalls' = extractorCalls + Len(chs)
    /\ pc' = "awaitAll"
    /\ UNCHANGED <<service, documentLength, settleOrder, joined, allClauses, synthCall,
                   result, error, synthesizerCalls, outsideAnalyze>>

\* (variant: a call whose model call threw is issued again)
SettleChunk_retry(i, settled) ==
    /\ calls[i].state = "pending"
    /\ IF settled.modelCall = "threw" /\ extractorCalls <= Len(calls)
       THEN /\ extractorCalls' = extractorCalls + 1
            /\ UNCHANGED <<calls, settleOrder, joined>>
       ELSE /\ calls' = [calls EXCEPT ![i] = settled]
            /\ settleOrder' = Append(settleOrder, i)
            /\ joined' = promiseAllState(calls', joined)
            /\ UNCHANGED extractorCalls
    /\ UNCHANGED <<service, documentLength, pc, allClauses, synthCall, result,
                   error, progress, synthesizerCalls, outsideAnalyze>>

\* the model call of chunk i completes and analyzeChunk runs to its end
SettleChunk(i, settled) ==
    /\ calls[i].state = "pending"
    /\ calls' = [calls EXCEPT ![i] = settled]
    /\ settleOrder' = Append(settleOrder, i)
    /\ joined' = promiseAllState(calls', joined)
    /\ UNCHANGED <<service, documentLength, pc, allClauses, synthCall, result,
                   error, progress, extractorCalls, synthesizerCalls,
                   outsideAnalyze>>

AnalyzeChunkSettles ==
    /\ service = "analysisService"
    /\ \E i \in DOMAIN calls, outcome \in ExtractorOutcomes :
          SettleChunk(i, analyzeChunk(outcome))

GeminiAnalyzeChunkSettles ==
    /\ service = "geminiService"
    /\ \E i \in DOMAIN calls, outcome \in ExtractorOutcomes :
          SettleChunk(i, geminiAnalyzeChunk(outcome))

\* Promise.all rejected: the await throws and analyzeContract fails
ExtractionRejected ==
    /\ pc = "awaitAll" /\ joined = "rejected"
    /\ pc' = "failed"
    /\ error' = (CHOOSE r \in {calls[i].reason : i \in DOMAIN calls} : r # "none")
    /\ UNCHANGED <<service, documentLength, calls, settleOrder, joined, allClauses,
                   synthCall, result, progress, extractorCalls, synthesizerCalls,
                   outsideAnalyze>>

\* Promise.all fulfilled: flatten, zero-clause check, then the synthesis call
ExtractionJoined ==
    /\ pc = "awaitAll" /\ joined = "fulfilled"
    /\ LET chunkResults == promiseAllValues(calls, settleOrder)
           cl == flat(chunkResults)
       IN  /\ allClauses' = cl
           /\ IF noClausesFound(cl)
              THEN /\ pc' = "failed"
                   /\ error' = NoClausesError
                   /\ UNCHANGED <<progress, synthCall, synthesizerCalls>>
              ELSE /\ progress' = Append(progress, Progress("Synthesizing final report...", 0))
                   /\ synthCall' = PendingSynthCall
                   /\ synthesizerCalls' = synthesizerCalls + 1
                   /\ pc' = "awaitSynth"
                   /\ UNCHANGED error
    /\ UNCHANGED <<service, documentLength, calls, settleOrder, joined, result,
                   extractorCalls, outsideAnalyze>>

\* the Synthesizer's model call completes: synthesizeReport ends and
\* analyzeContract returns the merged report or fails
SynthesisDone(outcome, r) ==
    /\ pc = "awaitSynth" /\ synthCall = PendingSynthCall
    /\ synthCall' = SettledSynthCall(outcome)
    /\ IF r.threw
       THEN /\ pc' = "failed" /\ error' = r.error /\ UNCHANGED result
       ELSE /\ pc' = "returned"
            /\ result' = mergeReport(r.value, allClauses)
            /\ UNCHANGED error
    /\ UNCHANGED <<service, documentLength, calls, settleOrder, joined, allClauses,
                   progress, extractorCalls, synthesizerCalls, outsideAnalyze>>

SynthesizeReportSettles ==
    /\ service = "analysisService"
    /\ \E outcome \in SynthesizerOutcomes : SynthesisDone(outcome, synthesizeReport(outcome))

GeminiSynthesizeReportSettles ==
    /\ service = "geminiService"
    /\ \E outcome \in SynthesizerOutcomes : SynthesisDone(outcome, geminiSynthesizeReport(outcome))

Next ==
    \/ analyzeContract
    \/ AnalyzeChunkSettles
    \/ GeminiAnalyzeChunkSettles
    \/ ExtractionRejected
    \/ ExtractionJoined
    \/ SynthesizeReportSettles
    \/ GeminiSynthesizeReportSettles

Spec == Init /\ [][Next]_vars

(***************************************************************************)
(* Properties of analyzeContract (Spec)                                    *)
(***************************************************************************)
\* the await of Promise.all has returned the per-chunk results
ExtractionWasJoined == joined = "fulfilled" /\ pc \in {"awaitSynth", "returned", "failed"}

AllSettled == \A i \in DOMAIN calls : calls[i].state # "pending"

\* C1: a chunk whose Extractor model call throws yields an empty clause list
\* for that chunk, and when every call has settled and some chunk yielded a
\* clause the run has gone on to synthesis instead of failing.
C1_ExtractorFaultTolerance ==
    /\ \A i \in DOMAIN calls :
          calls[i].modelCall = "threw" =>
              (calls[i].state = "fulfilled" /\ calls[i].value = <<>>)
    /\ (/\ pc # "awaitAll" /\ AllSettled
        /\ \E i \in DOMAIN calls : calls[i].modelCall = "threw"
        /\ \E j \in DOMAIN calls : calls[j].value # <<>>)
          => synthesizerCalls = 1

RECURSIVE ClausesBefore(_)
\* number of clauses reported by the chunks before chunk i
ClausesBefore(i) == IF i <= 1 THEN 0 ELSE ClausesBefore(i - 1) + Len(calls[i - 1].value)

\* C2: whatever the order in which the calls complete, the flattened clause
\* sequence holds chunk 1's clauses, then chunk 2's, ..., each chunk's clauses
\* in the order of its model output.
C2_OrderPreservation ==
    ExtractionWasJoined =>
        /\ Len(allClauses) = ClausesBefore(Len(calls) + 1)
        /\ \A i \in DOMAIN calls : \A k \in 1..Len(calls[i].value) :
              allClauses[ClausesBefore(i) + k] = calls[i].value[k]

C2_Witness ==
    /\ pc = "awaitSynth" /\ Len(calls) = 3
    /\ settleOrder = <<3, 1, 2>>
    /\ calls[1].value = <<"c1", "c2">> /\ calls[2].value = <<"c2">>
    /\ calls[3].value = <<"c1">>
    /\ allClauses = <<"c1", "c2", "c2", "c1">>

\* C3: when every chunk's analyzeChunk call returned an empty list, the run
\* fails with the 'No legal clauses were identified' error, which is not the
\* synthesis error, and the Synthesizer was not invoked.
C3_ZeroClauseFailure ==
    /\ NoClausesError \notin {SynthesisParseError, GeminiSynthesisError, TransportError}
    /\ (/\ pc # "awaitAll" /\ calls # <<>>
        /\ \A i \in DOMAIN calls :
              calls[i].state = "fulfilled" /\ calls[i].value = <<>>)
          => /\ pc = "failed"
             /\ error = NoClausesError
             /\ synthesizerCalls = 0
             /\ synthCall = NoSynthCall

C3_Witness ==
    /\ pc = "failed" /\ error = NoClausesError /\ Len(calls) = 3
    /\ \A i \in DOMAIN calls : calls[i].state = "fulfilled" /\ calls[i].value = <<>>
    /\ \E i \in DOMAIN calls : calls[i].modelCall = "returned"

\* the Synthesizer's response text is one its service cannot parse
SynthesisUnparseable ==
    /\ synthCall.state = "settled" /\ ~synthCall.outcome.threw
    /\ \/ synthCall.outcome.text.body.kind = "garbage"
       \/ service = "geminiService" /\ synthCall.outcome.text.fenced

\* C4: when the Synthesizer's response cannot be parsed the run fails with the
\* synthesis error and no AnalysisResponse is returned, not even one holding
\* only the extracted clauses.
C4_SynthesisFailureIsTerminal ==
    SynthesisUnparseable =>
        /\ pc = "failed"
        /\ error \in {SynthesisParseError, GeminiSynthesisError}
        /\ result = NoResult

C4_Witness ==
    /\ service = "analysisService" /\ SynthesisUnparseable
    /\ pc = "failed" /\ error = SynthesisParseError
    /\ allClauses # <<>> /\ result = NoResult

ExpectedChunkCount(n) ==
    IF n <= DefaultChunkSize THEN 1 ELSE CeilDiv(n, DefaultChunkSize - DefaultOverlap)

\* C9: a run invokes the Extractor exactly once per chunk (once for 3000
\* characters, three times for 9000) and the Synthesizer at most once; the
\* counts do not grow when a call fails.
C9_CallCounts ==
    /\ pc = "start" => extractorCalls = 0
    /\ pc # "start" =>
          /\ extractorCalls = ExpectedChunkCount(documentLength)
          /\ extractorCalls = Len(calls)
          /\ documentLength = 3000 => extractorCalls = 1
          /\ documentLength = 9000 => extractorCalls = 3
    /\ synthesizerCalls <= 1
    /\ synthesizerCalls = (IF synthCall.state = "none" THEN 0 ELSE 1)

C9_Witness ==
    /\ documentLength = 9000 /\ extractorCalls = 3 /\ synthesizerCalls = 1
    /\ pc = "failed" /\ synthCall.state = "settled" /\ synthCall.outcome.threw
    /\ \E i \in DOMAIN calls : calls[i].modelCall = "threw"

(***************************************************************************)
(* SpecRetrieve: one call of vectorRetrieveRelevantChunks                  *)
(***************************************************************************)
\* n chunks, all different
ChunkList(n) == [i \in 1..n |-> <<96 + i>>]

\* vector lists the embedding service may return for m inputs: the right
\* count, one too few or one too many, or none
EmbedOutcomes(m) ==
    {EmbedThrew} \cup
    {EmbedReturned(vs) : vs \in UNION {[1..len -> VectorSet] : len \in {0, m - 1, m, m + 1}}}

InitRetrieve ==
    /\ rChunks \in {ChunkList(n) : n \in 0..MaxChunks}
    /\ topK \in 0..MaxTopK
    /\ rPc = "call"
    /\ vectors = EmbedThrew
    /\ rResult = NoRetrieval
    /\ IdleOutsideRetrieve

CallVectorRetrieve ==
    /\ rPc = "call"
    /\ \E embedded \in EmbedOutcomes(Len(rChunks) + 1) :
          /\ vectors' = embedded
          /\ rResult' = vectorRetrieveRelevantChunks(rChunks, topK, embedded)
    /\ rPc' = "returned"
    /\ UNCHANGED <<rChunks, topK, outsideRetrieve>>

NextRetrieve == CallVectorRetrieve

SpecRetrieve == InitRetrieve /\ [][NextRetrieve]_vars

\* C10: when the embedding call throws or returns a number of vectors other
\* than the number of inputs (chunks plus the query), the retrieval does not
\* throw and returns the chunk list it was given, unchanged.
C10_RetrievalFallback ==
    (rPc = "returned" /\ (vectors.threw \/ Len(vectors.vectors) # Len(rChunks) + 1))
        => (~rResult.threw /\ rResult.value = rChunks)

C10_Witness ==
    /\ rPc = "returned" /\ ~vectors.threw
    /\ Len(rChunks) = 3 /\ Len(vectors.vectors) = 3 /\ topK = 1
    /\ rResult.value = rChunks

\* the embedding call gave one vector per input
EmbeddingSucceeded ==
    rPc = "returned" /\ ~vectors.threw /\ Len(vectors.vectors) = Len(rChunks) + 1

\* similarity of chunk i to the query (the last vector)
ChunkScore(i) == cosineSimilarity(vectors.vectors[i], vectors.vectors[Len(vectors.vectors)])

\* position in rChunks of a returned chunk (the chunks are all different)
ChunkIndex(c) == CHOOSE i \in 1..Len(rChunks) : rChunks[i] = c

\* C11: with one vector per input and k >= 1 the retrieval returns exactly
\* min(k, n) of the n chunks, in order of non-increasing similarity to the
\* query, and no chunk left out is strictly more similar than a returned one.
C11_TopKRanking ==
    (EmbeddingSucceeded /\ topK >= 1) =>
        LET out == rResult.value
            n == Len(rChunks)
        IN  /\ ~rResult.threw
            /\ Len(out) = Min(topK, n)
            /\ \A j \in 1..Len(out) : \E i \in 1..n : rChunks[i] = out[j]
            /\ \A j1, j2 \in 1..Len(out) : j1 # j2 => out[j1] # out[j2]
            /\ \A j \in 1..(Len(out) - 1) :
                  ~ScoreGreater(ChunkScore(ChunkIndex(out[j + 1])), ChunkScore(ChunkIndex(out[j])))
            /\ \A i \in 1..n :
                  (\A j \in 1..Len(out) : out[j] # rChunks[i]) =>
                      \A j \in 1..Len(out) :
                          ~ScoreGreater(ChunkScore(i), ChunkScore(ChunkIndex(out[j])))

C11_Witness ==
    /\ EmbeddingSucceeded /\ topK = 2 /\ Len(rChunks) = 3
    /\ rResult.value = <<rChunks[3], rChunks[1]>>
    /\ ScoreGreater(ChunkScore(3), ChunkScore(1))
    /\ ScoreGreater(ChunkScore(1), ChunkScore(2))

\* C12: for every k, also k = 0, and every outcome of the embedding call the
\* retrieval returns a non-empty list when it was given a non-empty chunk
\* list; with k = 0 it returns the full chunk list.
C12_NonEmptyContext ==
    (rPc = "returned" /\ rChunks # <<>>) =>
        /\ ~rResult.threw
        /\ rResult.value # <<>>
        /\ topK = 0 => rResult.value = rChunks

C12_Witness ==
    /\ EmbeddingSucceeded /\ topK = 0 /\ Len(rChunks) = 3
    /\ rResult.value = rChunks

(***************************************************************************)
(* SpecCosine: one call of cosineSimilarity(a, b), vectors of equal length *)
(***************************************************************************)
MaxDim == 3        \* most components of a vector in SpecCosine
Components == {-1, 0, 1}

InitCosine ==
    /\ \E d \in 1..MaxDim :
          /\ vecA \in [1..d -> Components]
          /\ vecB \in [1..d -> Components]
    /\ cosPc = "call"
    /\ cosResult = NoScore
    /\ IdleOutsideCosine

CallCosineSimilarity ==
    /\ cosPc = "call"
    /\ cosResult' = cosineSimilarity(vecA, vecB)
    /\ cosPc' = "returned"
    /\ UNCHANGED <<vecA, vecB, outsideCosine>>

NextCosine == CallCosineSimilarity

SpecCosine == InitCosine /\ [][NextCosine]_vars

IsZeroVector(v) == \A i \in DOMAIN v : v[i] = 0

\* C16: cosineSimilarity returns exactly 0, not NaN or an infinity, when a or
\* b is the all-zero vector: the zero denominator is replaced by 1.
C16_ZeroVectorGivesZero ==
    (cosPc = "returned" /\ (IsZeroVector(vecA) \/ IsZeroVector(vecB))) =>
        /\ cosResult.denomSq = 1
        /\ cosResult.dot = 0

C16_Witness ==
    /\ cosPc = "returned" /\ IsZeroVector(vecA) /\ ~IsZeroVector(vecB) /\ Len(vecA) = 3
    /\ cosResult.dot = 0 /\ cosResult.denomSq = 1

\* the computed number is larger than 1 or smaller than -1
OutsideUnitInterval(sc) ==
    \/ sc.denomSq = 0
    \/ sc.dot * sc.dot > sc.denomSq
    \/ sc.dot * sc.dot = sc.denomSq /\ sc.excess > 0

BothNonZero == ~IsZeroVector(vecA) /\ ~IsZeroVector(vecB)

C18_ClausesPassThrough ==
    pc = "returned" =>
        /\ "clauses" \in result.fields
        /\ result.clauses = allClauses
        /\ Len(result.clauses) = ClausesBefore(Len(calls) + 1)
        /\ \A i \in DOMAIN calls : \A k \in 1..Len(calls[i].value) :
              result.clauses[ClausesBefore(i) + k] = calls[i].value[k]

C18_Witness ==
    /\ pc = "returned" /\ service = "analysisService" /\ Len(calls) = 2
    /\ calls[1].value = <<"c1">> /\ calls[2].value = <<"c1">>
    /\ synthCall.outcome.text.body = JsonVal("object", ReportKeys \cup {"clauses"}, <<"c2">>)
    /\ result.clauses = <<"c1", "c1">>

\* C20 as stated: analyzeContract neither invokes the Synthesizer nor
\* completes, by returning or by failing, while a per-chunk Extractor call is
\* outstanding.
C20_JoinBarrier ==
    (synthesizerCalls > 0 \/ pc \in {"awaitSynth", "returned", "failed"}) => AllSettled

(***************************************************************************)
(* SpecExtract: one call of analyzeChunk, resumed with the model's outcome *)
(***************************************************************************)
InitExtract ==
    /\ exService \in Services
    /\ exOutcome \in ExtractorOutcomes
    /\ exPc = "awaitModel"
    /\ exResult = Pending
    /\ IdleOutsideExtract

AnalyzeChunkReturns ==
    /\ exPc = "awaitModel" /\ exService = "analysisService"
    /\ exResult' = analyzeChunk(exOutcome)
    /\ exPc' = "settled"
    /\ UNCHANGED <<exService, exOutcome, outsideExtract>>

GeminiAnalyzeChunkReturns ==
    /\ exPc = "awaitModel" /\ exService = "geminiService"
    /\ exResult' = geminiAnalyzeChunk(exOutcome)
    /\ exPc' = "settled"
    /\ UNCHANGED <<exService, exOutcome, outsideExtract>>

NextExtract == AnalyzeChunkReturns \/ GeminiAnalyzeChunkReturns

SpecExtract == InitExtract /\ [][NextExtract]_vars

\* the response text is not JSON once the fences are stripped
NotParseable(txt) == txt.body.kind = "garbage"
\* the response text is JSON that has no `clauses` field
NoClausesField(txt) ==
    /\ txt.body.kind # "garbage"
    /\ ~(txt.body.kind = "object" /\ "clauses" \in txt.body.keys)

\* C19: when the Extractor returns text that is not parseable JSON, or JSON
\* without a clauses field, analyzeChunk returns the empty sequence and does
\* not throw.
C19_UnusableResponseGivesNoClauses ==
    (/\ exPc = "settled" /\ ~exOutcome.threw
     /\ (NotParseable(exOutcome.text) \/ NoClausesField(exOutcome.text))) =>
        /\ exResult.state = "fulfilled"
        /\ exResult.value = <<>>

C19_Witness ==
    /\ exPc = "settled" /\ exService = "analysisService"
    /\ exOutcome = Returned(ResponseText(TRUE, Garbage))
    /\ exResult = Fulfilled(<<>>, "returned")

(***************************************************************************)
(* SpecSimulate: one run of simulateImpact(documentText, scenario)         *)
(***************************************************************************)
MaxScenarioLen == 2     \* longest scenario, in characters
SimDocLengths == {0, 1000, 1501}
Scenarios == SeqsUpTo({Space, Letter}, MaxScenarioLen)

InitSimulate ==
    /\ simService \in Services
    /\ simDocLength \in SimDocLengths
    /\ scenario \in Scenarios
    /\ simPc = "start"
    /\ simChunks = <<>> /\ relevantChunks = <<>>
    /\ retrievalCalls = 0 /\ answererCalls = 0 /\ answerCall = "none"
    /\ simResult = NoAnswer /\ simError = "none"
    /\ IdleOutsideSimulate

\* simulateImpact up to its first await: the scenario guard, the chunking and
\* the retrieval call
simulateImpact ==
    /\ simPc = "start"
    /\ IF trim(scenario) = <<>>
       THEN /\ simResult' = EnterScenarioMessage
            /\ simPc' = "returned"
            /\ UNCHANGED <<simChunks, retrievalCalls>>
       ELSE /\ simChunks' = chunkText(Doc(simDocLength), RetrievalChunkSize, RetrievalOverlap)
            /\ retrievalCalls' = retrievalCalls + 1
            /\ simPc' = "awaitRetrieval"
            /\ UNCHANGED simResult
    /\ UNCHANGED <<simService, simDocLength, scenario, relevantChunks, answererCalls,
                   answerCall, simError, outsideSimulate>>

\* resumed with the retrieved chunks: the explanatory message when there are
\* none, else the Answerer's model call
RetrievalDone(rel) ==
    /\ simPc = "awaitRetrieval"
    /\ relevantChunks' = rel
    /\ IF Len(rel) = 0
       THEN /\ simResult' = NotFoundMessage
            /\ simPc' = "returned"
            /\ UNCHANGED <<answererCalls, answerCall>>
       ELSE /\ answererCalls' = answererCalls + 1
            /\ answerCall' = "pending"
            /\ simPc' = "awaitAnswer"
            /\ UNCHANGED simResult
    /\ UNCHANGED <<simService, simDocLength, scenario, simChunks, retrievalCalls,
                   simError, outsideSimulate>>

VectorRetrievalSettles ==
    /\ simService = "analysisService"
    /\ \E embedded \in EmbedOutcomes(Len(simChunks) + 1) :
          RetrievalDone(vectorRetrieveRelevantChunks(simChunks, RetrievalTopK, embedded).value)

FindRelevantChunksSettles ==
    /\ simService = "geminiService"
    /\ \E outcome \in IndicesOutcomes(Len(simChunks)) :
          RetrievalDone(findRelevantChunks(simChunks, outcome))

\* resumed with the Answerer's outcome; e is the error an exception ends in
AnswerDone(outcome, e) ==
    /\ simPc = "awaitAnswer" /\ answerCall = "pending"
    /\ IF outcome.threw
       THEN /\ answerCall' = "threw"
            /\ simPc' = "failed"
            /\ simError' = e
            /\ UNCHANGED simResult
       ELSE /\ answerCall' = "returned"
            /\ simPc' = "returned"
            /\ simResult' = outcome.text
            /\ UNCHANGED simError
    /\ UNCHANGED <<simService, simDocLength, scenario, simChunks, relevantChunks,
                   retrievalCalls, answererCalls, outsideSimulate>>

\* analysisService: no try/catch, the exception of chatComplete leaves as it is
AnswererSettles ==
    /\ simService = "analysisService"
    /\ \E outcome \in AnswererOutcomes : AnswerDone(outcome, TransportError)

\* geminiService: the catch block throws the retry message
GeminiAnswererSettles ==
    /\ simService = "geminiService"
    /\ \E outcome \in AnswererOutcomes : AnswerDone(outcome, SimulationRetryError)

NextSimulate ==
    \/ simulateImpact
    \/ VectorRetrievalSettles
    \/ FindRelevantChunksSettles
    \/ AnswererSettles
    \/ GeminiAnswererSettles

SpecSimulate == InitSimulate /\ [][NextSimulate]_vars

Blank(s) == \A i \in DOMAIN s : s[i] = Space

\* C13: with an empty or whitespace-only scenario simulateImpact returns the
\* fixed message 'Please enter a scenario to simulate.' and issues no
\* embedding (retrieval) call and no chat-completion call, for every document.
C13_ScenarioGuard ==
    (simPc \notin {"off", "start"} /\ Blank(scenario)) =>
        /\ simPc = "returned"
        /\ simResult = EnterScenarioMessage
        /\ retrievalCalls = 0 /\ answererCalls = 0 /\ answerCall = "none"

C13_Witness ==
    /\ simPc = "returned" /\ scenario = <<Space, Space>> /\ simDocLength = 1501
    /\ simService = "analysisService" /\ simResult = EnterScenarioMessage
    /\ retrievalCalls = 0 /\ answererCalls = 0

\* C14 as stated: with an empty document and a non-blank scenario
\* simulateImpact returns the 'Could not find any information' message and
\* does not call the Answerer.
C14_EmptyDocumentMessage ==
    (simDocLength = 0 /\ ~Blank(scenario) /\ simPc \notin {"off", "start", "awaitRetrieval"}) =>
        /\ simPc = "returned"
        /\ simResult = NotFoundMessage
        /\ answererCalls = 0

\* C15 as stated: when the Answerer's model call fails simulateImpact fails
\* with the error that tells the user to try again, returns no answer, and
\* has called the Answerer once.
C15_AnswererFailureIsTerminal ==
    answerCall = "threw" =>
        /\ simPc = "failed"
        /\ simError = SimulationRetryError
        /\ simResult = NoAnswer
        /\ answererCalls = 1

\* the three notifications of a run with n Extractor calls, in order
ProgressSequence(n) ==
    <<Progress("Chunking document...", 0),
      Progress("Analyzing N document section(s)...", n),
      Progress("Synthesizing final report...", 0)>>

\* C21: the progress notifications are 'Chunking document...', then
\* 'Analyzing N document section(s)...' with N the number of Extractor calls
\* issued, then 'Synthesizing final report...'; the last is emitted only after
\* every Extractor call has settled and only when a clause was extracted, and
\* the Synthesizer is never called without it.
C21_ProgressOrder ==
    /\ pc = "start" => progress = <<>>
    /\ pc \notin {"off", "start"} =>
          /\ Len(progress) \in {2, 3}
          /\ progress = SubSeq(ProgressSequence(extractorCalls), 1, Len(progress))
    /\ Len(progress) = 3 =>
          /\ AllSettled
          /\ ClausesBefore(Len(calls) + 1) >= 1
    /\ synthesizerCalls > 0 => Len(progress) = 3

C21_Witness ==
    /\ pc = "awaitSynth" /\ extractorCalls = 3 /\ synthCall = PendingSynthCall
    /\ progress = ProgressSequence(3)

AnalysisResponseFields == {"summary", "clauses", "keyTerms", "keyDates", "missingClauses"}

\* C24 as stated: every AnalysisResponse that analyzeContract returns has all
\* five fields, whatever parseable JSON value the Synthesizer's model returns.
C24_AllFieldsPresent ==
    pc = "returned" => AnalysisResponseFields \subseteq result.fields

(***************************************************************************)
(* SpecChunkLoop: chunkText run one loop iteration at a time.  A run whose *)
(* loop does not end is followed for MaxIterations iterations.             *)
(***************************************************************************)
MaxIterations == MaxLen + 2

InitChunkLoop == InitChunk

\* the call up to the loop: the single-chunk shortcut or `let i = 0`
EnterChunkText ==
    /\ chunkPc = "call"
    /\ IF Len(text) <= chunkSize
       THEN /\ chunkResult' = <<text>>
            /\ chunkPc' = "returned"
       ELSE /\ chunkResult' = <<>>
            /\ chunkPc' = "loop"
    /\ loopI' = 0
    /\ UNCHANGED <<text, chunkSize, overlap, outsideChunk>>

\* one test of `i < text.length`: the body and the update, or the return
LoopStep ==
    /\ chunkPc = "loop"
    /\ IF loopI < Len(text)
       THEN /\ Len(chunkResult) < MaxIterations
            /\ chunkResult' = Append(chunkResult, substring(text, loopI, loopI + chunkSize))
            /\ loopI' = advance(loopI, chunkSize, overlap)
            /\ UNCHANGED chunkPc
       ELSE /\ chunkPc' = "returned"
            /\ UNCHANGED <<chunkResult, loopI>>
    /\ UNCHANGED <<text, chunkSize, overlap, outsideChunk>>

NextChunkLoop == EnterChunkText \/ LoopStep

SpecChunkLoop == InitChunkLoop /\ [][NextChunkLoop]_vars /\ WF_vars(NextChunkLoop)

\* C22: chunkText terminates for every text when overlap < size; when
\* overlap >= size and the text is longer than size the window start never
\* reaches the end of the text and the call never returns; the parameters of
\* analyzeContract (4000/400) and simulateImpact (1500/200) are of the first
\* kind.
C22_Termination ==
    /\ (overlap < chunkSize) => <>(chunkPc = "returned")
    /\ []((overlap >= chunkSize /\ Len(text) > chunkSize) =>
              (chunkPc # "returned" /\ loopI < Len(text)))
    /\ [](chunkPc = "returned" => chunkResult = chunkText(text, chunkSize, overlap))
    /\ DefaultOverlap < DefaultChunkSize
    /\ RetrievalOverlap < RetrievalChunkSize

C22_Witness ==
    /\ chunkPc = "loop" /\ overlap > chunkSize /\ Len(text) = MaxLen
    /\ Len(chunkResult) = MaxIterations /\ loopI < 0

\* the offset in the text just past chunk k, which starts at
\* (k - 1) * (chunkSize - overlap)
ChunkEnd(k) == (k - 1) * (chunkSize - overlap) + Len(chunkResult[k])

\* C23 as stated: for overlap < size every chunk after the first holds at
\* least one character that lies beyond the end of the chunk before it.
C23_EveryChunkAddsText ==
    (ChunkReturned /\ overlap < chunkSize) =>
        \A k \in 2..Len(chunkResult) : ChunkEnd(k) > ChunkEnd(k - 1)

(***************************************************************************)
(* SpecDocView: the parts DocumentView computes from documentText and the  *)
(* clauses' clauseText                                                     *)
(***************************************************************************)
MaxDocViewLen == 4      \* longest documentText
MaxClauseTextLen == 2   \* longest clauseText
MaxClauseCount == 2     \* most clauses

\* String.prototype.indexOf: the first 0-based offset where c occurs in t,
\* -1 when it does not occur
indexOf(t, c) ==
    LET hits == {i \in 0..(Len(t) - Len(c)) : SubSeq(t, i + 1, i + Len(c)) = c}
    IN  IF hits = {} THEN -1 ELSE CHOOSE i \in hits : \A j \in hits : i <= j

\* the clauses with originalIndex and start, those not found filtered out
RECURSIVE locateClauses(_, _, _)
locateClauses(t, cls, k) ==
    IF k > Len(cls) THEN <<>>
    ELSE LET start == indexOf(t, cls[k])
             rest == locateClauses(t, cls, k + 1)
         IN  IF start # -1
             THEN <<[clauseText |-> cls[k], originalIndex |-> k - 1, start |-> start]>> \o rest
             ELSE rest

\* sort((a, b) => a.start - b.start), stable
RECURSIVE insertByStart(_, _)
insertByStart(sorted, e) ==
    IF sorted = <<>> THEN <<e>>
    ELSE IF e.start < Head(sorted).start THEN <<e>> \o sorted
         ELSE <<Head(sorted)>> \o insertByStart(Tail(sorted), e)

RECURSIVE sortByStart(_)
sortByStart(xs) ==
    IF xs = <<>> THEN <<>>
    ELSE insertByStart(sortByStart(SubSeq(xs, 1, Len(xs) - 1)), xs[Len(xs)])

TextPart(str) == [kind |-> "text", text |-> str, originalIndex |-> -1]
ClausePart(cl) == [kind |-> "clause", text |-> cl.clauseText, originalIndex |-> cl.originalIndex]

\* the forEach over the sorted clauses; gives <<result, lastIndex>>
RECURSIVE forEachClause(_, _, _, _, _)
forEachClause(t, sorted, k, lastIndex, res) ==
    IF k > Len(sorted) THEN <<res, lastIndex>>
    ELSE LET clause == sorted[k]
             gap == IF clause.start > lastIndex
                    THEN <<TextPart(substring(t, lastIndex, clause.start))>>
                    ELSE <<>>
         IN  forEachClause(t, sorted, k + 1, clause.start + Len(clause.clauseText),
                           res \o gap \o <<ClausePart(clause)>>)

computeParts(t, cls) ==
    IF Len(cls) = 0 THEN <<TextPart(t)>>
    ELSE LET done == forEachClause(t, sortByStart(locateClauses(t, cls, 1)), 1, 0, <<>>)
             res == done[1]
             lastIndex == done[2]
         IN  IF lastIndex < Len(t)
             THEN Append(res, TextPart(substring(t, lastIndex, Len(t))))
             ELSE res

ClauseTexts == SeqsUpTo(Chars, MaxClauseTextLen)

InitDocView ==
    /\ dvText \in SeqsUpTo(Chars, MaxDocViewLen)
    /\ dvClauses \in SeqsUpTo(ClauseTexts, MaxClauseCount)
    /\ dvPc = "render"
    /\ dvParts = <<>>
    /\ IdleOutsideDocView

RenderDocumentView ==
    /\ dvPc = "render"
    /\ dvParts' = computeParts(dvText, dvClauses)
    /\ dvPc' = "rendered"
    /\ UNCHANGED <<dvText, dvClauses, outsideDocView>>

NextDocView == RenderDocumentView

SpecDocView == InitDocView /\ [][NextDocView]_vars

RECURSIVE ConcatParts(_, _)
ConcatParts(ps, k) == IF k > Len(ps) THEN <<>> ELSE ps[k].text \o ConcatParts(ps, k + 1)

\* C25 as stated: the parts of DocumentView, plain strings and clause texts,
\* concatenated in order equal documentText, also when two clauses have the
\* same text or one located clause overlaps or lies inside another.
C25_PartsReconstructDocument ==
    dvPc = "rendered" => ConcatParts(dvParts, 1) = dvText

(***************************************************************************)
(* SpecApp: the App component, its handlers as the rendered views offer    *)
(* them, one analysis attempt in flight, and the session and analyses of   *)
(* authService                                                             *)
(***************************************************************************)
MaxAnalyses == 2        \* most analyses saved in a run
NoUser == 0             \* null
Users == {1, 2}
NoAnalysis == 0         \* null
NoError == "none"       \* null

NotLoggedInError == "You must be logged in to analyze a document."
NotEnoughTextError == "Could not extract enough text from the document. The file might be empty, corrupted, or an image-based PDF without readable text."
SimulationFailedError == "An unknown error occurred during simulation."

NotInFlight == [stage |-> "none", user |-> NoUser]
InFlight(stage, user) == [stage |-> stage, user |-> user]

\* authService.getUserAnalyses: the user's analyses, newest first
RECURSIVE getUserAnalyses(_, _)
getUserAnalyses(stored, userId) ==
    IF stored = <<>> THEN <<>>
    ELSE LET a == stored[Len(stored)]
             rest == getUserAnalyses(SubSeq(stored, 1, Len(stored) - 1), userId)
         IN  IF a.userId = userId THEN <<a.id>> \o rest ELSE rest

\* authService.saveAnalysis: appends the new analysis to the store
saveAnalysis(stored, userId) == Append(stored, [id |-> Len(stored) + 1, userId |-> userId])

InitApp ==
    /\ currentUser = NoUser /\ view = "landing"
    /\ userAnalyses = <<>> /\ currentAnalysis = NoAnalysis
    /\ isLoading = FALSE /\ loadingMessage = "" /\ appError = NoError
    /\ session \in {NoUser} \cup Users
    /\ storedAnalyses \in {<<>>, <<[id |-> 1, userId |-> 1]>>}
    /\ inFlight = NotInFlight
    /\ mounted = FALSE
    /\ IdleOutsideApp

\* useEffect(..., []): restores the session
Mount ==
    /\ ~mounted /\ mounted' = TRUE
    /\ IF session # NoUser
       THEN /\ currentUser' = session
            /\ userAnalyses' = getUserAnalyses(storedAnalyses, session)
            /\ view' = "dashboard"
       ELSE /\ view' = "landing"
            /\ UNCHANGED <<currentUser, userAnalyses>>
    /\ UNCHANGED <<currentAnalysis, isLoading, loadingMessage, appError, session,
                   storedAnalyses, inFlight, outsideApp>>

\* Header (login, signup) and LandingPage and the two forms' switch links
ShowAuthView ==
    /\ mounted
    /\ \/ currentUser = NoUser
       \/ ~isLoading /\ view \in {"landing", "login", "signup"}
    /\ view' \in {"login", "signup"}
    /\ UNCHANGED <<currentUser, userAnalyses, currentAnalysis, isLoading, loadingMessage,
                   appError, session, storedAnalyses, inFlight, mounted, outsideApp>>

\* LoginView / SignupView succeed: authService stores the session, then
\* handleLogin(user)
handleLogin ==
    /\ mounted /\ ~isLoading /\ view \in {"login", "signup"}
    /\ \E user \in Users :
          /\ session' = user
          /\ currentUser' = user
          /\ userAnalyses' = getUserAnalyses(storedAnalyses, user)
    /\ view' = "dashboard"
    /\ UNCHANGED <<currentAnalysis, isLoading, loadingMessage, appError, storedAnalyses,
                   inFlight, mounted, outsideApp>>

handleLogout ==
    /\ mounted /\ currentUser # NoUser
    /\ session' = NoUser
    /\ currentUser' = NoUser
    /\ userAnalyses' = <<>>
    /\ currentAnalysis' = NoAnalysis
    /\ view' = "landing"
    /\ UNCHANGED <<isLoading, loadingMessage, appError, storedAnalyses, inFlight, mounted,
                   outsideApp>>

handleReset ==
    /\ mounted
    /\ appError' = NoError
    /\ currentAnalysis' = NoAnalysis
    /\ view' = (IF currentUser # NoUser THEN "dashboard" ELSE "landing")
    /\ UNCHANGED <<currentUser, userAnalyses, isLoading, loadingMessage, session,
                   storedAnalyses, inFlight, mounted, outsideApp>>

\* DashboardView is rendered
DashboardShown == mounted /\ ~isLoading /\ view = "dashboard" /\ currentUser # NoUser

NewAnalysisClick ==
    /\ DashboardShown
    /\ view' = "new_analysis"
    /\ UNCHANGED <<currentUser, userAnalyses, currentAnalysis, isLoading, loadingMessage,
                   appError, session, storedAnalyses, inFlight, mounted, outsideApp>>

handleViewAnalysis ==
    /\ DashboardShown
    /\ \E k \in DOMAIN userAnalyses : currentAnalysis' = userAnalyses[k]
    /\ view' = "analysis_result"
    /\ UNCHANGED <<currentUser, userAnalyses, isLoading, loadingMessage, appError, session,
                   storedAnalyses, inFlight, mounted, outsideApp>>

\* ErrorMessage is rendered
ErrorShown ==
    mounted /\ ~isLoading /\ view \in {"new_analysis", "analysis_result"} /\ appError # NoError

\* ErrorMessage.onRetry
ErrorRetry ==
    /\ ErrorShown
    /\ appError' = NoError
    /\ view' = "dashboard"
    /\ UNCHANGED <<currentUser, userAnalyses, currentAnalysis, isLoading, loadingMessage,
                   session, storedAnalyses, inFlight, mounted, outsideApp>>

\* AnalysisDisplay is rendered
AnalysisShown ==
    /\ mounted /\ ~isLoading /\ view = "analysis_result"
    /\ appError = NoError /\ currentAnalysis # NoAnalysis

BackToDashboard ==
    /\ AnalysisShown
    /\ view' = "dashboard"
    /\ UNCHANGED <<currentUser, userAnalyses, currentAnalysis, isLoading, loadingMessage,
                   appError, session, storedAnalyses, inFlight, mounted, outsideApp>>

\* AnalysisDisplay.onError = setError: a failed simulation of the shown analysis
DisplayReportsError ==
    /\ AnalysisShown
    /\ appError' \in {SimulationFailedError, TransportError}
    /\ UNCHANGED <<currentUser, view, userAnalyses, currentAnalysis, isLoading,
                   loadingMessage, session, storedAnalyses, inFlight, mounted, outsideApp>>

\* FileUpload is rendered
UploadShown == mounted /\ ~isLoading /\ view = "new_analysis" /\ appError = NoError

\* handleStartAnalysis up to its first await
handleStartAnalysis ==
    /\ UploadShown /\ inFlight = NotInFlight
    /\ Len(storedAnalyses) < MaxAnalyses
    /\ IF currentUser = NoUser
       THEN /\ appError' = NotLoggedInError
            /\ UNCHANGED <<currentAnalysis, isLoading, loadingMessage, inFlight>>
       ELSE /\ appError' = NoError
            /\ currentAnalysis' = NoAnalysis
            /\ isLoading' = TRUE
            /\ loadingMessage' = "Reading document..."
            /\ inFlight' = InFlight("reading", currentUser)
    /\ UNCHANGED <<currentUser, view, userAnalyses, session, storedAnalyses, mounted,
                   outsideApp>>

\* the catch and finally blocks of handleStartAnalysis
AttemptFails(message) ==
    /\ appError' = message
    /\ view' = "dashboard"
    /\ isLoading' = FALSE
    /\ loadingMessage' = ""
    /\ inFlight' = NotInFlight
    /\ UNCHANGED <<currentUser, userAnalyses, currentAnalysis, session, storedAnalyses,
                   mounted, outsideApp>>

\* the file is read: analyzeContract is called, or reading or the text check fails
FileRead ==
    /\ inFlight.stage = "reading"
    /\ \/ /\ inFlight' = InFlight("analyzing", inFlight.user)
          /\ loadingMessage' = "Analyzing N document section(s)..."
          /\ UNCHANGED <<currentUser, view, userAnalyses, currentAnalysis, isLoading,
                         appError, session, storedAnalyses, mounted, outsideApp>>
       \/ \E message \in {"Failed to read the file.", NotEnoughTextError} :
             AttemptFails(message)

\* analyzeContract returns: the analysis is saved for the user of the closure
AnalysisSucceeds ==
    /\ inFlight.stage = "analyzing"
    /\ storedAnalyses' = saveAnalysis(storedAnalyses, inFlight.user)
    /\ currentAnalysis' = Len(storedAnalyses) + 1
    /\ userAnalyses' = getUserAnalyses(storedAnalyses', inFlight.user)
    /\ view' = "analysis_result"
    /\ isLoading' = FALSE
    /\ loadingMessage' = ""
    /\ inFlight' = NotInFlight
    /\ UNCHANGED <<currentUser, appError, session, mounted, outsideApp>>

AnalysisFails ==
    /\ inFlight.stage = "analyzing"
    /\ \E message \in {NoClausesError, SynthesisParseError, TransportError} :
          AttemptFails(message)

NextApp ==
    \/ Mount
    \/ ShowAuthView
    \/ handleLogin
    \/ handleLogout
    \/ handleReset
    \/ NewAnalysisClick
    \/ handleViewAnalysis
    \/ ErrorRetry
    \/ BackToDashboard
    \/ DisplayReportsError
    \/ handleStartAnalysis
    \/ FileRead
    \/ AnalysisSucceeds
    \/ AnalysisFails

SpecApp == InitApp /\ [][NextApp]_vars

\* C26 as stated: after handleLogout and until the next login (no session is
\* stored) currentUser is null, currentAnalysis is null, userAnalyses is empty
\* and the view is neither 'analysis_result' nor 'dashboard', also when an
\* analysis started before the logout completes after it.
C26_LoggedOutStateIsClean ==
    (mounted /\ session = NoUser) =>
        /\ currentUser = NoUser
        /\ currentAnalysis = NoAnalysis
        /\ userAnalyses = <<>>
        /\ view \notin {"analysis_result", "dashboard"}

\* C27 as stated, first part: when an analysis attempt fails, the view the
\* App is left in displays the error message.
C27_FailureIsDisplayed ==
    [][(inFlight.stage # "none" /\ inFlight'.stage = "none" /\ appError' # NoError)
          => ErrorShown']_vars

(***************************************************************************)
(* SpecAuth: signup, login, handleGoogleLogin and logout of authService on *)
(* the stored user list (localStorage) and the session (sessionStorage).   *)
(* Strings are sequences of character codes.                               *)
(***************************************************************************)
At == 64                \* '@'
Usernames == {<<97>>, <<65>>, <<98>>}                               \* a, A, b
Emails == {<<97, At, 120>>, <<65, At, 120>>, <<98, At, 120>>}       \* a@x, A@x, b@x
Passwords == {"p", "q"}
GoogleNames == {<<>>, <<65>>}                                       \* no name, A
Clock == {1, 2}         \* values of Date.now()

\* (variant: the comparison is case-sensitive)
toLowerCase_none(str) == str

\* String.prototype.toLowerCase on the letters A-Z
toLowerCase(str) == [i \in DOMAIN str |-> IF str[i] >= 65 /\ str[i] <= 90 THEN str[i] + 32 ELSE str[i]]

\* email.split('@')[0]
RECURSIVE beforeAt(_)
beforeAt(str) ==
    IF str = <<>> \/ Head(str) = At THEN <<>> ELSE <<Head(str)>> \o beforeAt(Tail(str))

hashOf(password) == <<"hashed_", password>>
GoogleAuthenticated == <<"GOOGLE_AUTHENTICATED", "">>

UsernameTakenError == "This username is already taken."
EmailExistsError == "An account with this email already exists."
InvalidLoginError == "Invalid email or password."

StoredUser(id, username, email, passwordHash) ==
    [id |-> id, username |-> username, email |-> email, passwordHash |-> passwordHash]
\* the session value: the user without passwordHash, <<>> when none is stored
SessionOf(u) == <<[id |-> u.id, username |-> u.username, email |-> u.email]>>
NoSession == <<>>

AuthCall(op, username, email, err) ==
    [op |-> op, username |-> username, email |-> email, error |-> err]

\* users.find(u => u.email.toLowerCase() === email.toLowerCase()): the index
\* of the first match, 0 when there is none
findByEmail(us, email) ==
    LET hits == {i \in DOMAIN us : toLowerCase(us[i].email) = toLowerCase(email)}
    IN  IF hits = {} THEN 0 ELSE CHOOSE i \in hits : \A j \in hits : i <= j

usernameTaken(us, username) ==
    \E i \in DOMAIN us : toLowerCase(us[i].username) = toLowerCase(username)

\* the while loop of handleGoogleLogin: newUsername, newUsername1, ...
RECURSIVE uniqueUsername(_, _, _, _)
uniqueUsername(us, newUsername, finalUsername, counter) ==
    IF usernameTaken(us, finalUsername)
    THEN uniqueUsername(us, newUsername, newUsername \o <<48 + counter>>, counter + 1)
    ELSE finalUsername

InitAuth ==
    /\ users = <<>>
    /\ authSession = NoSession
    /\ authCall = AuthCall("none", <<>>, <<>>, "none")
    /\ IdleOutsideAuth

signup ==
    \E username \in Usernames, email \in Emails, password \in {"p"}, now \in Clock :
        IF usernameTaken(users, username)
        THEN /\ authCall' = AuthCall("signup", username, email, UsernameTakenError)
             /\ UNCHANGED <<users, authSession, outsideAuth>>
        ELSE IF findByEmail(users, email) # 0
        THEN /\ authCall' = AuthCall("signup", username, email, EmailExistsError)
             /\ UNCHANGED <<users, authSession, outsideAuth>>
        ELSE LET newUser == StoredUser(now, username, email, hashOf(password))
             IN  /\ users' = Append(users, newUser)
                 /\ authSession' = SessionOf(newUser)
                 /\ authCall' = AuthCall("signup", username, email, "none")
                 /\ UNCHANGED outsideAuth

login ==
    \E email \in Emails, password \in Passwords :
        LET k == findByEmail(users, email)
        IN  IF k # 0 /\ users[k].passwordHash = hashOf(password)
            THEN /\ authSession' = SessionOf(users[k])
                 /\ authCall' = AuthCall("login", <<>>, email, "none")
                 /\ UNCHANGED <<users, outsideAuth>>
            ELSE /\ authCall' = AuthCall("login", <<>>, email, InvalidLoginError)
                 /\ UNCHANGED <<users, authSession, outsideAuth>>

handleGoogleLogin ==
    \E name \in GoogleNames, email \in Emails, now \in Clock :
        LET k == findByEmail(users, email)
            newUsername == IF name # <<>> THEN name ELSE beforeAt(email)
            newUser == StoredUser(now, uniqueUsername(users, newUsername, newUsername, 1),
                                  email, GoogleAuthenticated)
        IN  /\ IF k = 0
               THEN /\ users' = Append(users, newUser)
                    /\ authSession' = SessionOf(newUser)
               ELSE /\ authSession' = SessionOf(users[k])
                    /\ UNCHANGED users
            /\ authCall' = AuthCall("handleGoogleLogin", name, email, "none")
            /\ UNCHANGED outsideAuth

logout ==
    /\ authSession' = NoSession
    /\ authCall' = AuthCall("logout", <<>>, <<>>, "none")
    /\ UNCHANGED <<users, outsideAuth>>

NextAuth == signup \/ login \/ handleGoogleLogin \/ logout

SpecAuth == InitAuth /\ [][NextAuth]_vars

\* equality of two strings ignoring the case of the letters a, b
Fold(c) == IF c = 65 THEN 97 ELSE IF c = 66 THEN 98 ELSE c
EqualIgnoringCase(x, y) ==
    Len(x) = Len(y) /\ \A i \in DOMAIN x : Fold(x[i]) = Fold(y[i])

NoDuplicateUsers(us) ==
    \A i, j \in DOMAIN us :
        i # j => /\ ~EqualIgnoringCase(us[i].username, us[j].username)
                 /\ ~EqualIgnoringCase(us[i].email, us[j].email)

WouldDuplicate(us, call) ==
    \E i \in DOMAIN us :
        \/ EqualIgnoringCase(us[i].username, call.username)
        \/ EqualIgnoringCase(us[i].email, call.email)

\* C28: after any sequence of signup, login, handleGoogleLogin and logout the
\* user list holds no two users with usernames equal ignoring case nor with
\* emails equal ignoring case, and a signup that would create such a
\* duplicate throws and leaves the user list and the session unchanged.
C28_UniqueUsers ==
    /\ [](NoDuplicateUsers(users))
    /\ [][(authCall'.op = "signup" /\ WouldDuplicate(users, authCall')) =>
             (/\ authCall'.error \in {UsernameTakenError, EmailExistsError}
              /\ users' = users /\ authSession' = authSession)]_vars

C28_Witness ==
    /\ Len(users) = 2
    /\ users[1].username = <<97>> /\ users[2].username = <<65, 49>>
    /\ authCall = AuthCall("signup", <<65>>, <<98, At, 120>>, UsernameTakenError)

(***************************************************************************)
(* SpecNegotiate: the resolutions and custom texts of NegotiateView, its   *)
(* handlers as the clause cards offer them                                 *)
(***************************************************************************)
MaxRiskyClauses == 2    \* clause cards shown
ClauseIndexes == 0..(MaxRiskyClauses - 1)
Choices == {"ai", "user", "original"}
InputTexts == {<<>>, <<Space>>, <<Letter>>}     \* "", " ", "q"

\* an optional string: undefined, or the string
Undefined == <<>>
Some(str) == <<str>>

Resolution(clauseIndex, choice, userText, isResolved) ==
    [clauseIndex |-> clauseIndex, choice |-> choice, userText |-> userText,
     isResolved |-> isResolved]

\* prev.find((r) => r.clauseIndex === clauseIndex): its position, 0 if none
findResolution(prev, clauseIndex) ==
    LET hits == {k \in DOMAIN prev : prev[k].clauseIndex = clauseIndex}
    IN  IF hits = {} THEN 0 ELSE CHOOSE k \in hits : \A j \in hits : k <= j

getResolution(clauseIndex) ==
    LET k == findResolution(resolutions, clauseIndex)
    IN  IF k # 0 THEN resolutions[k] ELSE Resolution(clauseIndex, "ai", Undefined, FALSE)

\* userInputs[index]: undefined when the key was never set
inputOf(index) == IF index \in DOMAIN userInputs THEN Some(userInputs[index]) ELSE Undefined

\* a value used as a condition: undefined and "" are falsy
truthy(opt) == opt # Undefined /\ opt[1] # <<>>

\* the updater of setResolutions shared by the handlers: replace the
\* clause's entry (keeping the fields the handler does not set) or append
putResolution(prev, r, keepUserText) ==
    LET k == findResolution(prev, r.clauseIndex)
    IN  IF k # 0
        THEN [j \in DOMAIN prev |->
                IF prev[j].clauseIndex = r.clauseIndex
                THEN [r EXCEPT !.userText = IF keepUserText THEN prev[j].userText ELSE @]
                ELSE prev[j]]
        ELSE Append(prev, r)

\* updateResolution: the entry with choice, userText and isResolved: true
updateResolution(prev, clauseIndex, choice, userText) ==
    putResolution(prev, Resolution(clauseIndex, choice, userText, TRUE), FALSE)

InitNegotiate ==
    /\ resolutions = <<>>
    /\ userInputs = <<>>
    /\ negPc = "shown"
    /\ IdleOutsideNegotiate

\* a radio button of the card of clause `index`
handleChoiceChange ==
    /\ negPc = "shown"
    /\ \E index \in ClauseIndexes, choice \in Choices :
          resolutions' = putResolution(resolutions,
                                       Resolution(index, choice, Undefined, FALSE), TRUE)
    /\ UNCHANGED <<userInputs, negPc, outsideNegotiate>>

\* the textarea, rendered while the clause's choice is "user"
handleUserInputChange ==
    /\ negPc = "shown"
    /\ \E index \in ClauseIndexes, txt \in InputTexts :
          /\ getResolution(index).choice = "user"
          /\ userInputs' = [k \in DOMAIN userInputs \cup {index} |->
                               IF k = index THEN txt ELSE userInputs[k]]
    /\ UNCHANGED <<resolutions, negPc, outsideNegotiate>>

\* the Confirm Choice button: rendered while the clause is not resolved,
\* disabled while the choice is "user" and the trimmed custom text is empty
confirmChoice ==
    /\ negPc = "shown"
    /\ \E index \in ClauseIndexes :
          LET resolution == getResolution(index)
              input == inputOf(index)
          IN  /\ ~resolution.isResolved
              /\ ~(resolution.choice = "user" /\ (input = Undefined \/ trim(input[1]) = <<>>))
              /\ IF resolution.choice = "user" /\ truthy(input)
                 THEN resolutions' = updateResolution(resolutions, index, "user", input)
                 ELSE IF resolution.choice = "ai"
                 THEN resolutions' = updateResolution(resolutions, index, "ai", Undefined)
                 ELSE IF resolution.choice = "original"
                 THEN resolutions' = updateResolution(resolutions, index, "original", Undefined)
                 ELSE UNCHANGED resolutions
    /\ UNCHANGED <<userInputs, negPc, outsideNegotiate>>

NextNegotiate == handleChoiceChange \/ handleUserInputChange \/ confirmChoice

SpecNegotiate == InitNegotiate /\ [][NextNegotiate]_vars

\* C29 as stated: a clause whose resolution has choice 'user' is never marked
\* resolved while its custom rewrite text is empty.
C29_ResolvedUserChoiceHasText ==
    \A k \in DOMAIN resolutions :
        (resolutions[k].choice = "user" /\ resolutions[k].isResolved) =>
            /\ resolutions[k].clauseIndex \in DOMAIN userInputs
            /\ userInputs[resolutions[k].clauseIndex] # <<>>

(***************************************************************************)
(* SpecImpactView: ImpactSimulatorView, its form and its simulateImpact    *)
(* calls.  A handler and the render that follows it are one step.          *)
(***************************************************************************)
MaxSubmits == 3         \* most simulateImpact calls started in a run

\* (variant: the guard only tests the scenario)
submitReturnsEarly_scenarioOnly(scen, loading) == scen = <<>>

\* `if (!scenario || isLoading) return;`
submitReturnsEarly(scen, loading) == scen = <<>> \/ loading

\* what the awaited simulateImpact call can end with
SimulationResults == {EnterScenarioMessage, NotFoundMessage, "answer", ""}
SimulationErrors == {TransportError, SimulationFailedError}

InitImpactView ==
    /\ ivScenario = <<>> /\ ivResult = "" /\ ivIsLoading = FALSE
    /\ ivInFlight = 0 /\ ivStarted = 0
    /\ ivError = "none"
    /\ IdleOutsideImpactView

\* the textarea, disabled while loading
SetScenario ==
    /\ ivError # "off" /\ ~ivIsLoading
    /\ ivScenario' \in Scenarios
    /\ UNCHANGED <<ivResult, ivIsLoading, ivInFlight, ivStarted, ivError, outsideImpactView>>

\* a submit event of the form: handleSubmit up to its await
handleSubmit ==
    /\ ivError # "off"
    /\ ~submitReturnsEarly(ivScenario, ivIsLoading)
    /\ ivStarted < MaxSubmits
    /\ ivIsLoading' = TRUE
    /\ ivResult' = ""
    /\ ivError' = ""
    /\ ivInFlight' = ivInFlight + 1
    /\ ivStarted' = ivStarted + 1
    /\ UNCHANGED <<ivScenario, outsideImpactView>>

\* simulateImpact returned: setResult, then finally
SimulationReturns ==
    /\ ivInFlight > 0
    /\ ivResult' \in SimulationResults
    /\ ivIsLoading' = FALSE
    /\ ivInFlight' = ivInFlight - 1
    /\ UNCHANGED <<ivScenario, ivStarted, ivError, outsideImpactView>>

\* simulateImpact threw: onError, then finally
SimulationThrows ==
    /\ ivInFlight > 0
    /\ ivError' \in SimulationErrors
    /\ ivIsLoading' = FALSE
    /\ ivInFlight' = ivInFlight - 1
    /\ UNCHANGED <<ivScenario, ivResult, ivStarted, outsideImpactView>>

NextImpactView == SetScenario \/ handleSubmit \/ SimulationReturns \/ SimulationThrows

SpecImpactView == InitImpactView /\ [][NextImpactView]_vars

====
